---- MODULE Spec2Model ----
(***************************************************************************)
(* Model of InventoryApp.py: the Product entity (validated construction,   *)
(* detail update, quantity delta) and the InventoryManager singleton store *)
(* (a Python dict from product id to Product, kept in insertion order).    *)
(***************************************************************************)
EXTENDS Integers, Sequences, FiniteSets, TLC

VARIABLES
    _instance,   \* InventoryManager._instance: NoInstance or a reference into heap
    heap,        \* heap[r] is the _products dict of the InventoryManager object r
    handles,     \* the references InventoryManager() has returned so far, in order
    call,        \* the call about to be made, with its arguments, or None (at the menu)
    ret,         \* what the last call returned: [op, val, product]; val "ValueError" = it raised
    out          \* the lines the last call printed

vars == <<_instance, heap, handles, call, ret, out>>

----------------------------------------------------------------------------
(* Bounds of the exploration *)

MaxQty == 1        \* quantities explored are 0..MaxQty
MaxHandles == 3    \* InventoryManager() is called at most this many times

(* Python values *)

None == <<>>                 \* None; a present optional value v is <<v>>
Some(v) == <<v>>
NoInstance == 0              \* _instance = None

\* A float is NaN or a number; every ordered comparison with NaN is false.
NaN == [nan |-> TRUE, v |-> 0]
Num(n) == [nan |-> FALSE, v |-> n]
FloatLE(x, n) == ~x.nan /\ x.v <= n
FloatGT(x, n) == ~x.nan /\ x.v > n

\* f"{price:.2f}" of a float with an integral value
Format2f(x) == IF x.nan THEN "nan" ELSE ToString(x.v) \o ".00"

(* Inputs *)

Ids == {"", "a", "b"}
Names == {"", "n", "m"}
Descs == {"", "d"}
Prices == {Num(0), Num(1), NaN}
Quantities == -1..MaxQty
Deltas == (0 - (MaxQty + 1))..MaxQty
Opt(S) == {None} \cup {Some(v) : v \in S}

----------------------------------------------------------------------------
(* class Product *)

\* Product.__init__: the new object, or raised = TRUE for ValueError
Product(product_id, name, description, price, quantity) ==
    IF product_id = "" \/ name = "" \/ FloatLE(price, 0) \/ quantity < 0
    THEN [raised |-> TRUE, self |-> None]
    ELSE [raised |-> FALSE,
          self |-> Some([product_id |-> product_id, name |-> name,
                         description |-> description, price |-> price,
                         quantity |-> quantity])]

\* update_details with "if description:" for "if description is not None:"
update_details_truthy(self, name, description, price) ==
    IF name # None /\ name[1] = ""
    THEN [raised |-> TRUE, self |-> self]
    ELSE LET s1 == IF name # None THEN [self EXCEPT !.name = name[1]] ELSE self
             s2 == IF description # None /\ description[1] # ""
                   THEN [s1 EXCEPT !.description = description[1]] ELSE s1
         IN  IF price # None /\ FloatLE(price[1], 0)
             THEN [raised |-> TRUE, self |-> s2]
             ELSE [raised |-> FALSE,
                   self |-> IF price # None THEN [s2 EXCEPT !.price = price[1]] ELSE s2]

\* Product.update_details: fields are checked and assigned one after another, so
\* a ValueError leaves the assignments made before it in place
update_details(self, name, description, price) ==
    IF name # None /\ name[1] = ""
    THEN [raised |-> TRUE, self |-> self]
    ELSE LET s1 == IF name # None THEN [self EXCEPT !.name = name[1]] ELSE self
             s2 == IF description # None
                   THEN [s1 EXCEPT !.description = description[1]] ELSE s1
         IN  IF price # None /\ FloatLE(price[1], 0)
             THEN [raised |-> TRUE, self |-> s2]
             ELSE [raised |-> FALSE,
                   self |-> IF price # None THEN [s2 EXCEPT !.price = price[1]] ELSE s2]

\* update_quantity with "new_quantity <= 0" for "new_quantity < 0"
update_quantity_strict(self, quantity_change) ==
    LET new_quantity == self.quantity + quantity_change
    IN  IF new_quantity <= 0
        THEN [raised |-> TRUE, self |-> self]
        ELSE [raised |-> FALSE, self |-> [self EXCEPT !.quantity = new_quantity]]

\* Product.update_quantity
update_quantity(self, quantity_change) ==
    LET new_quantity == self.quantity + quantity_change
    IN  IF new_quantity < 0
        THEN [raised |-> TRUE, self |-> self]
        ELSE [raised |-> FALSE, self |-> [self EXCEPT !.quantity = new_quantity]]

----------------------------------------------------------------------------
(* dict: a sequence of [key, value] entries in insertion order *)

Keys(d) == {d[i].key : i \in DOMAIN d}
Index(d, k) == CHOOSE i \in DOMAIN d : d[i].key = k
DictGet(d, k) == IF k \in Keys(d) THEN Some(d[Index(d, k)].value) ELSE None
DictSet(d, k, v) ==
    IF k \in Keys(d) THEN [d EXCEPT ![Index(d, k)].value = v]
    ELSE Append(d, [key |-> k, value |-> v])
DictDel(d, k) == SelectSeq(d, LAMBDA e : e.key # k)

Result(op, val) == [op |-> op, val |-> val, product |-> None]
NoResult == Result("", "")

NotFound == "Error: Product not found."

----------------------------------------------------------------------------
(* The calls a handler of main_menu, or __main__, can make *)

ProductCalls(I, N, D, P, Q) ==
    {[op |-> "Product", product_id |-> i, name |-> n, description |-> d,
      price |-> p, quantity |-> q] : i \in I, n \in N, d \in D, p \in P, q \in Q}
IdCalls(o, I) == {[op |-> o, product_id |-> i] : i \in I}
UpdateCalls(I, N, D, P) ==
    {[op |-> "update_product_details", product_id |-> i, name |-> n,
      description |-> d, price |-> p] : i \in I, n \in N, d \in D, p \in P}
StockCalls(I, C) ==
    {[op |-> "update_stock", product_id |-> i, quantity_change |-> c] : i \in I, c \in C}
ListCalls == {[op |-> "list_all_products"]}

\* main_menu dispatches to a handler, which reads its inputs; the call comes next
Dispatch(c) ==
    /\ call = None
    /\ ret = NoResult
    /\ call' = Some(c)
    /\ ret' = NoResult
    /\ out' = <<>>
    /\ UNCHANGED <<_instance, heap, handles>>

\* the handler has returned (or raised to main_menu): "Press Enter to continue..."
Continue ==
    /\ call = None
    /\ ret # NoResult
    /\ ret' = NoResult
    /\ out' = <<>>
    /\ UNCHANGED <<_instance, heap, handles, call>>

Pending(o) == call # None /\ call[1].op = o

----------------------------------------------------------------------------
(* class InventoryManager *)

\* __new__ without the "if cls._instance is None" test
New_fresh ==
    /\ Len(handles) < MaxHandles
    /\ call = None
    /\ ret = NoResult
    /\ heap' = Append(heap, <<>>)
    /\ _instance' = Len(heap) + 1
    /\ handles' = Append(handles, _instance')
    /\ ret' = Result("InventoryManager", "Instance")
    /\ out' = <<>>
    /\ UNCHANGED call

\* InventoryManager.__new__ (called by InventoryManager())
New ==
    /\ Len(handles) < MaxHandles
    /\ call = None
    /\ ret = NoResult
    /\ IF _instance = NoInstance
       THEN /\ heap' = Append(heap, <<>>)
            /\ _instance' = Len(heap) + 1
       ELSE UNCHANGED <<heap, _instance>>
    /\ handles' = Append(handles, _instance')
    /\ ret' = Result("InventoryManager", "Instance")
    /\ out' = <<>>
    /\ UNCHANGED call

\* product = Product(...): on success add_product(product) is the next call,
\* a ValueError leaves the handler
NewProduct ==
    /\ Pending("Product")
    /\ LET c == call[1]
           r == Product(c.product_id, c.name, c.description, c.price, c.quantity)
       IN  /\ call' = IF r.raised THEN None
                      ELSE Some([op |-> "add_product", product |-> r.self[1]])
           /\ ret' = [op |-> "Product",
                      val |-> IF r.raised THEN "ValueError" ELSE "Product",
                      product |-> r.self]
    /\ out' = <<>>
    /\ UNCHANGED <<_instance, heap, handles>>

\* add_product without the "already exists" test
add_product_overwrite(h) ==
    /\ Pending("add_product")
    /\ LET p == call[1].product
       IN  /\ heap' = [heap EXCEPT ![h] = DictSet(@, p.product_id, p)]
           /\ out' = <<"Product added successfully.">>
           /\ ret' = Result("add_product", "True")
    /\ call' = None
    /\ UNCHANGED <<_instance, handles>>

\* InventoryManager.add_product
add_product(h) ==
    /\ Pending("add_product")
    /\ LET p == call[1].product
       IN  IF p.product_id \in Keys(heap[h])
           THEN /\ out' = <<"Error: Product already exists.">>
                /\ ret' = Result("add_product", "False")
                /\ UNCHANGED heap
           ELSE /\ heap' = [heap EXCEPT ![h] = DictSet(@, p.product_id, p)]
                /\ out' = <<"Product added successfully.">>
                /\ ret' = Result("add_product", "True")
    /\ call' = None
    /\ UNCHANGED <<_instance, handles>>

\* remove_product without the del
remove_product_keeps(h) ==
    /\ Pending("remove_product")
    /\ LET product_id == call[1].product_id
       IN  IF product_id \notin Keys(heap[h])
           THEN /\ out' = <<NotFound>>
                /\ ret' = Result("remove_product", "False")
           ELSE /\ out' = <<"Product removed successfully.">>
                /\ ret' = Result("remove_product", "True")
    /\ call' = None
    /\ UNCHANGED <<_instance, heap, handles>>

\* InventoryManager.remove_product
remove_product(h) ==
    /\ Pending("remove_product")
    /\ LET product_id == call[1].product_id
       IN  IF product_id \notin Keys(heap[h])
           THEN /\ out' = <<NotFound>>
                /\ ret' = Result("remove_product", "False")
                /\ UNCHANGED heap
           ELSE /\ heap' = [heap EXCEPT ![h] = DictDel(@, product_id)]
                /\ out' = <<"Product removed successfully.">>
                /\ ret' = Result("remove_product", "True")
    /\ call' = None
    /\ UNCHANGED <<_instance, handles>>

\* InventoryManager.get_product: the value returned and the lines printed
GetProduct(d, product_id) ==
    LET p == DictGet(d, product_id)
    IN  [product |-> p, out |-> IF p = None THEN <<NotFound>> ELSE <<>>]

\* get_product with _products.pop(product_id, None) for _products.get(product_id)
get_product_pop(h) ==
    /\ Pending("get_product")
    /\ LET g == GetProduct(heap[h], call[1].product_id)
       IN  /\ ret' = [op |-> "get_product",
                      val |-> IF g.product = None THEN "None" ELSE "Product",
                      product |-> g.product]
           /\ out' = g.out
           /\ heap' = [heap EXCEPT ![h] = DictDel(@, call[1].product_id)]
    /\ call' = None
    /\ UNCHANGED <<_instance, handles>>

get_product(h) ==
    /\ Pending("get_product")
    /\ LET g == GetProduct(heap[h], call[1].product_id)
       IN  /\ ret' = [op |-> "get_product",
                      val |-> IF g.product = None THEN "None" ELSE "Product",
                      product |-> g.product]
           /\ out' = g.out
    /\ call' = None
    /\ UNCHANGED <<_instance, heap, handles>>

\* update_product_details without the try/except: the ValueError reaches the caller
update_product_details_uncaught(h) ==
    /\ Pending("update_product_details")
    /\ LET c == call[1]
           g == GetProduct(heap[h], c.product_id)
       IN  IF g.product # None
           THEN LET r == update_details(g.product[1], c.name, c.description, c.price)
                IN  /\ heap' = [heap EXCEPT ![h] = DictSet(@, c.product_id, r.self)]
                    /\ IF ~r.raised
                       THEN /\ out' = <<"Product details updated successfully.">>
                            /\ ret' = Result("update_product_details", "True")
                       ELSE /\ out' = <<>>
                            /\ ret' = Result("update_product_details", "ValueError")
           ELSE /\ out' = g.out
                /\ ret' = Result("update_product_details", "False")
                /\ UNCHANGED heap
    /\ call' = None
    /\ UNCHANGED <<_instance, handles>>

\* InventoryManager.update_product_details
update_product_details(h) ==
    /\ Pending("update_product_details")
    /\ LET c == call[1]
           g == GetProduct(heap[h], c.product_id)
       IN  IF g.product # None
           THEN LET r == update_details(g.product[1], c.name, c.description, c.price)
                IN  \* the Product is changed in place, also when update_details raises
                    /\ heap' = [heap EXCEPT ![h] = DictSet(@, c.product_id, r.self)]
                    /\ IF ~r.raised
                       THEN /\ out' = <<"Product details updated successfully.">>
                            /\ ret' = Result("update_product_details", "True")
                       ELSE /\ out' = <<"Error updating product.">>
                            /\ ret' = Result("update_product_details", "False")
           ELSE /\ out' = g.out
                /\ ret' = Result("update_product_details", "False")
                /\ UNCHANGED heap
    /\ call' = None
    /\ UNCHANGED <<_instance, handles>>

\* InventoryManager.update_stock
update_stock(h) ==
    /\ Pending("update_stock")
    /\ LET c == call[1]
           g == GetProduct(heap[h], c.product_id)
       IN  IF g.product # None
           THEN LET r == update_quantity(g.product[1], c.quantity_change)
                IN  /\ r.self.quantity <= MaxQty
                    /\ heap' = [heap EXCEPT ![h] = DictSet(@, c.product_id, r.self)]
                    /\ IF ~r.raised
                       THEN /\ out' = <<IF c.quantity_change > 0
                                        THEN "stocked in" ELSE "stocked out">>
                            /\ ret' = Result("update_stock", "True")
                       ELSE /\ out' = <<"Error updating stock.">>
                            /\ ret' = Result("update_stock", "False")
           ELSE /\ out' = g.out
                /\ ret' = Result("update_stock", "False")
                /\ UNCHANGED heap
    /\ call' = None
    /\ UNCHANGED <<_instance, handles>>

\* one line of the listing
Line(p) ==
    "ID: " \o p.product_id \o ", Name: " \o p.name \o ", Price: $"
    \o Format2f(p.price) \o ", Quantity: " \o ToString(p.quantity)

Empty == "Inventory is currently empty."

Listing(d) ==
    IF d = <<>> THEN <<Empty>>
    ELSE <<"--- Current Inventory ---">>
         \o [i \in DOMAIN d |-> Line(d[i].value)]
         \o <<"-------------------------">>

\* InventoryManager.list_all_products
list_all_products(h) ==
    /\ Pending("list_all_products")
    /\ out' = Listing(heap[h])
    /\ ret' = Result("list_all_products", "None")
    /\ call' = None
    /\ UNCHANGED <<_instance, heap, handles>>

----------------------------------------------------------------------------
(* The program from main_menu(inventory_manager1) on: both InventoryManager()  *)
(* calls of __main__ have been made, the store is still empty.                 *)

Calls ==
    ProductCalls(Ids, Names, Descs, Prices, Quantities)
    \cup IdCalls("remove_product", Ids) \cup IdCalls("get_product", Ids)
    \cup UpdateCalls(Ids, Opt(Names), Opt(Descs), Opt(Prices))
    \cup StockCalls(Ids, Deltas) \cup ListCalls

Init ==
    /\ _instance = 1
    /\ heap = << <<>> >>
    /\ handles = <<1, 1>>
    /\ call = None
    /\ ret = NoResult
    /\ out = <<>>

Menu == \E c \in Calls : Dispatch(c)
Construct == NewProduct
AddProduct == add_product(handles[1])
RemoveProduct == remove_product(handles[1])
ViewProduct == get_product(handles[1])
UpdateProductDetails == update_product_details(handles[1])
UpdateStock == update_stock(handles[1])
ListAllProducts == list_all_products(handles[1])

Next ==
    \/ Menu
    \/ Continue
    \/ Construct
    \/ AddProduct
    \/ RemoveProduct
    \/ ViewProduct
    \/ UpdateProductDetails
    \/ UpdateStock
    \/ ListAllProducts

Spec == Init /\ [][Next]_vars

----------------------------------------------------------------------------
(* The program from the class definitions on: InventoryManager() is called at   *)
(* any moment, and every call goes through any of the handles obtained so far.  *)

SingletonCalls ==
    ProductCalls({"a", "b"}, {"n"}, {"d"}, {Num(1)}, {0, MaxQty})
    \cup IdCalls("remove_product", {"a", "b"}) \cup IdCalls("get_product", {"a", "c"})
    \cup UpdateCalls({"a"}, {Some("m")}, {None}, {None, Some(Num(0))})
    \cup StockCalls({"a", "b"}, {-1, 1}) \cup ListCalls

InitSingleton ==
    /\ _instance = NoInstance
    /\ heap = <<>>
    /\ handles = <<>>
    /\ call = None
    /\ ret = NoResult
    /\ out = <<>>

Acquire == New
MenuVia == handles # <<>> /\ \E c \in SingletonCalls : Dispatch(c)
AddVia == \E k \in DOMAIN handles : add_product(handles[k])
RemoveVia == \E k \in DOMAIN handles : remove_product(handles[k])
ViewVia == \E k \in DOMAIN handles : get_product(handles[k])
UpdateDetailsVia == \E k \in DOMAIN handles : update_product_details(handles[k])
UpdateStockVia == \E k \in DOMAIN handles : update_stock(handles[k])
ListVia == \E k \in DOMAIN handles : list_all_products(handles[k])

NextSingleton ==
    \/ Acquire
    \/ MenuVia
    \/ Continue
    \/ Construct
    \/ AddVia
    \/ RemoveVia
    \/ ViewVia
    \/ UpdateDetailsVia
    \/ UpdateStockVia
    \/ ListVia

SpecSingleton == InitSingleton /\ [][NextSingleton]_vars

----------------------------------------------------------------------------
(* Properties *)

\* the mapping of inventory_manager1, the handle main_menu works on
_products == heap[handles[1]]
StoredProducts == {_products[i].value : i \in DOMAIN _products}
ValueOf(d, k) == DictGet(d, k)[1]

\* the entries other than k are the same, at the same places, in d and e
SameExcept(d, e, k) ==
    /\ Len(d) = Len(e)
    /\ \A i \in DOMAIN d :
          /\ e[i].key = d[i].key
          /\ d[i].key # k => e[i].value = d[i].value

\* C1: every Product held in the store has a non-empty id, a non-empty name,
\* price > 0 and quantity >= 0.
C1_StoredProductsValid ==
    \A p \in StoredProducts :
        p.product_id # "" /\ p.name # "" /\ FloatGT(p.price, 0) /\ p.quantity >= 0

\* C2: an UpdateProductDetails that fails leaves the store, and so the name,
\* description and price of the product, exactly as they were (stated for a
\* store whose products all satisfy the invariants of C1).
C2_FailedUpdateChangesNothing ==
    [][(Pending("update_product_details") /\ C1_StoredProductsValid
        /\ ret'.val = "False")
          => _products' = _products]_vars

\* C3: AddProduct inserts the product and returns true iff its id is not a key of
\* the store; otherwise it returns false and the store is unchanged.
C3_AddProduct ==
    [][Pending("add_product") =>
          LET p == call[1].product
          IN  IF p.product_id \in Keys(_products)
              THEN ret'.val = "False" /\ _products' = _products
              ELSE /\ ret'.val = "True"
                   /\ _products' = Append(_products, [key |-> p.product_id, value |-> p])
      ]_vars

C3_Witness ==
    /\ ret.op = "add_product" /\ ret.val = "False"
    /\ out = <<"Error: Product already exists.">>
    /\ _products # <<>>

\* C4: RemoveProduct of an absent id returns false and changes nothing; of a
\* present id it returns true, deletes that entry and no other, and GetProduct of
\* that id then returns None.
C4_RemoveProduct ==
    [][Pending("remove_product") =>
          LET id == call[1].product_id
          IN  IF id \notin Keys(_products)
              THEN ret'.val = "False" /\ _products' = _products
              ELSE /\ ret'.val = "True"
                   /\ Keys(_products') = Keys(_products) \ {id}
                   /\ Len(_products') = Len(_products) - 1
                   /\ \A k \in Keys(_products') :
                         DictGet(_products', k) = DictGet(_products, k)
                   /\ GetProduct(_products', id).product = None
      ]_vars

C4_Witness ==
    /\ ret.op = "remove_product" /\ ret.val = "True"
    /\ _products # <<>>

\* C5: UpdateStock(id, delta) on a stored product of quantity q succeeds iff
\* q + delta >= 0; the quantity becomes q + delta on success and stays q on
\* failure; nothing else of that product and no other product changes.
C5_UpdateStock ==
    [][(Pending("update_stock") /\ call[1].product_id \in Keys(_products)) =>
          LET id == call[1].product_id
              delta == call[1].quantity_change
              old == ValueOf(_products, id)
              new == ValueOf(_products', id)
              q == old.quantity
          IN  /\ ret'.val = "True" <=> q + delta >= 0
              /\ delta > 0 => ret'.val = "True" /\ new.quantity = q + delta
              /\ (delta < 0 /\ 0 - delta <= q) =>
                    ret'.val = "True" /\ new.quantity = q - (0 - delta)
              /\ (delta < 0 /\ 0 - delta > q) =>
                    ret'.val = "False" /\ new.quantity = q
              /\ new = [old EXCEPT !.quantity = new.quantity]
              /\ SameExcept(_products, _products', id)
      ]_vars

C5_Witness ==
    /\ ret.op = "update_stock" /\ ret.val = "False"
    /\ out = <<"Error updating stock.">>

\* C6: AddProduct, RemoveProduct, UpdateProductDetails and UpdateStock never
\* raise: each returns True or False, and after a failure the program is back
\* at the menu and goes on.
C6_ManagerNeverRaises ==
    /\ ret.op \in {"add_product", "remove_product", "update_product_details",
                   "update_stock"} => ret.val \in {"True", "False"}
    /\ ret.val = "False" => call = None /\ ENABLED Continue

C6_Witness ==
    /\ ret.op = "update_product_details" /\ ret.val = "False"
    /\ out = <<"Error updating product.">>

\* C7: every InventoryManager() returns the same object, so all handles see the
\* same mapping, and a further InventoryManager() leaves the store as it is.
C7_Singleton ==
    [][/\ \A i, j \in DOMAIN handles' :
             handles'[i] = handles'[j] /\ heap'[handles'[i]] = heap'[handles'[j]]
       /\ (ret'.op = "InventoryManager" /\ handles # <<>>) =>
             heap'[handles'[1]] = heap[handles[1]]
      ]_vars

C7_Witness ==
    /\ ret.op = "InventoryManager"
    /\ Len(handles) >= 2
    /\ heap[handles[1]] # <<>>

\* C8: Construct succeeds iff id and name are non-empty, price > 0 and
\* quantity >= 0; on success the fields equal the inputs, on failure there is no
\* Product and nothing is added.
C8_Construct ==
    [][Pending("Product") =>
          LET c == call[1]
          IN  IF c.product_id # "" /\ c.name # "" /\ FloatGT(c.price, 0)
                 /\ c.quantity >= 0
              THEN /\ ret'.val = "Product"
                   /\ ret'.product =
                        Some([product_id |-> c.product_id, name |-> c.name,
                              description |-> c.description, price |-> c.price,
                              quantity |-> c.quantity])
              ELSE /\ ret'.val = "ValueError"
                   /\ ret'.product = None
                   /\ call' = None
                   /\ heap' = heap
      ]_vars

\* C9: a successful UpdateProductDetails sets exactly the provided fields; no
\* UpdateProductDetails changes the id, the quantity, the key or any other
\* product; on an absent id it returns false and changes nothing; every key is
\* the id of the product it maps to.
C9_UpdateProductDetails ==
    [][/\ Pending("update_product_details") =>
             LET c == call[1]
                 id == c.product_id
             IN  IF id \notin Keys(_products)
                 THEN ret'.val = "False" /\ _products' = _products
                 ELSE LET old == ValueOf(_products, id)
                          new == ValueOf(_products', id)
                      IN  /\ ret'.val = "True" =>
                                /\ new.name = IF c.name = None
                                              THEN old.name ELSE c.name[1]
                                /\ new.description = IF c.description = None
                                                     THEN old.description
                                                     ELSE c.description[1]
                                /\ new.price = IF c.price = None
                                               THEN old.price ELSE c.price[1]
                          /\ new.product_id = old.product_id
                          /\ new.quantity = old.quantity
                          /\ SameExcept(_products, _products', id)
       /\ \A i \in DOMAIN _products' :
             _products'[i].key = _products'[i].value.product_id
      ]_vars

C9_Witness ==
    /\ ret.op = "update_product_details" /\ ret.val = "True"
    /\ out = <<"Product details updated successfully.">>

\* C10: ListAllProducts and GetProduct change nothing; ListAllProducts prints one
\* line per stored product, with its fields, between header and footer, and only
\* the empty-inventory notice when the store is empty.
C10_ReadOnly ==
    [][/\ (Pending("list_all_products") \/ Pending("get_product")) =>
             heap' = heap /\ _instance' = _instance /\ handles' = handles
       /\ Pending("list_all_products") =>
             IF _products = <<>> THEN out' = <<Empty>>
             ELSE /\ Len(out') = Len(_products) + 2
                  /\ {out'[i] : i \in 2..(Len(out') - 1)}
                        = {Line(p) : p \in StoredProducts}
      ]_vars

C10_Witness ==
    /\ ret.op = "list_all_products"
    /\ Len(out) = 4
====
